---- MODULE Spec2Model ----
(***************************************************************************)
(* Model of claim_verifier/tools.py: TextFactChecker.verify and the        *)
(* helpers it calls, plus the stand-alone verdict aggregator.              *)
(*                                                                         *)
(* Strings are sequences of string pieces, so that concatenation is \o and *)
(* "s is embedded in m" is "s is a contiguous part of m".  Relevance       *)
(* scores are integers in units of 1/100000 and similarities in units of   *)
(* 1/10000, so that 0.6*t + 0.4*s + 0.1*b is the exact integer             *)
(* 6*t + 4*s + 10000*b.                                                    *)
(***************************************************************************)
EXTENDS Integers, Sequences, FiniteSets, TLC

VARIABLES
    pc,            \* position of the verify() call
    text_input,    \* the claim text handed to verify()
    search_results,\* verify: search_results / _search_claims: results
    alternative_queries, \* _search_claims: value returned by _create_alternative_queries
    relevant_results,    \* _analyze_results: relevant_results
    reports,       \* reports returned by verify(), in order
    escaped,       \* exceptions that left verify()
    search_log,    \* history: query of every request sent, and whether the service failed it
    search_returns,\* history: what every _perform_search call returned or raised
    oracle_log,    \* history: purpose, prompt content and kind of reply of every oracle call
    verdicts,      \* input list of _analyze_verdicts
    aggregate,     \* results returned by _analyze_verdicts
    candidate,     \* input of _calculate_relevance
    relevance,     \* scores returned by _calculate_relevance
    payload,       \* a JSON value the oracle sends
    parses,        \* what the reply parser made of each presentation of payload
    pipelines,     \* concurrent verify() calls: each call's position and its locals
    content,       \* input of _extract_verdict_from_content, one character per element
    extracted,     \* verdicts returned by _extract_verdict_from_content
    workflow,      \* GoogleAgentsOrchestrator.execute_workflow: tasks, loop position, results, context
    orchestrator,  \* OrchestratorAgent.run_full_pipeline: posts, content data, verification, final output
    scan           \* TrendScannerCrew.scan_trending_content: scan results and the returned summary

vars == <<pc, text_input, search_results, alternative_queries, relevant_results,
          reports, escaped, search_log, search_returns, oracle_log,
          verdicts, aggregate, candidate, relevance, payload, parses, pipelines,
          content, extracted, workflow, orchestrator, scan>>

\* everything but the concurrent calls
single_vars == <<pc, text_input, search_results, alternative_queries, relevant_results,
                 reports, escaped, search_log, search_returns, oracle_log,
                 verdicts, aggregate, candidate, relevance, payload, parses, content, extracted,
                 workflow, orchestrator, scan>>

\* the variables of the stand-alone functions, untouched by verify()
pure_vars == <<verdicts, aggregate, candidate, relevance, payload, parses, pipelines,
               content, extracted, workflow, orchestrator, scan>>

-----------------------------------------------------------------------------
(* Bounds *)

MaxResults == 3     \* longest result list the search service returns
MaxVerdicts == 3    \* longest verdict list handed to the aggregator
MaxEvidence == 6    \* longest list of filtered candidates handed to the synthesizer
NPipelines == 2     \* verify() calls in flight at once

-----------------------------------------------------------------------------
(* Values *)

\* Python values of a variable that holds None, a str or a list at different times
None == [py |-> "None"]
PyStr(s) == [py |-> "str", s |-> s]
PyList(l) == [py |-> "list", items |-> l]

NoText == <<>>      \* text_input before verify() is called

Texts == {<<"claim A">>, <<"claim B">>}

DefaultContext == <<"Unknown context">>
DefaultDate == <<"Unknown date">>

\* Candidate documents.  title_sim and snippet_sim stand for the value of
\* _tfidf_similarity(title, claim) and _tfidf_similarity(snippet, claim):
\* one scores exactly 0.05, one 0.05012, one 1.1 before the clamp.
Docs ==
    { [title |-> <<"loosely related">>, snippet |-> <<"s2">>, link |-> <<"u2">>,
       title_sim |-> 0, snippet_sim |-> 1250, claim_review |-> FALSE, keyword |-> FALSE],
      [title |-> <<"weak match">>, snippet |-> <<"s3">>, link |-> <<"u3">>,
       title_sim |-> 0, snippet_sim |-> 1253, claim_review |-> FALSE, keyword |-> FALSE],
      [title |-> <<"claim debunked">>, snippet |-> <<"s4">>, link |-> <<"snopes">>,
       title_sim |-> 10000, snippet_sim |-> 10000, claim_review |-> TRUE, keyword |-> TRUE] }

SeqsUpTo(S, n) == UNION { [1..k -> S] : k \in 0..n }

ResultLists == SeqsUpTo(Docs, MaxResults)

\* Is s a contiguous part of m?
Embedded(s, m) ==
    \E i \in 0..(Len(m) - Len(s)) : \A j \in 1..Len(s) : m[i + j] = s[j]

-----------------------------------------------------------------------------
(* Relevance scoring and the evidence filter *)

Threshold == 5000     \* 0.05
ScoreOne == 100000    \* 1.0

Min(a, b) == IF a < b THEN a ELSE b

has_factcheck_data(result) ==
    IF result.claim_review THEN 1
    ELSE IF result.keyword THEN 1
    ELSE 0

\* the final min(1.0, score) is missing
calculate_relevance_unclamped(result, original_text) ==
    LET title_part == IF result.title # <<>> THEN result.title_sim * 6 ELSE 0
        snippet_part == IF result.snippet # <<>> THEN result.snippet_sim * 4 ELSE 0
        bonus_part == has_factcheck_data(result) * 10000
    IN  title_part + snippet_part + bonus_part

calculate_relevance(result, original_text) ==
    LET title_part == IF result.title # <<>> THEN result.title_sim * 6 ELSE 0
        snippet_part == IF result.snippet # <<>> THEN result.snippet_sim * 4 ELSE 0
        bonus_part == has_factcheck_data(result) * 10000
    IN  Min(ScoreOne, title_part + snippet_part + bonus_part)

\* Candidates for the scorer alone: every combination of blank and non-blank
\* title and snippet, similarities from 0 to 1, and the two fact-check markers.
SimValues == {0, 1250, 1253, 5000, 10000}

Candidates ==
    [title : {<<>>, <<"t">>}, snippet : {<<>>, <<"s">>}, link : {<<"u">>},
     title_sim : SimValues, snippet_sim : SimValues,
     claim_review : BOOLEAN, keyword : BOOLEAN]

NoCandidate ==
    [title |-> <<>>, snippet |-> <<>>, link |-> <<>>, title_sim |-> 0, snippet_sim |-> 0,
     claim_review |-> FALSE, keyword |-> FALSE]

passes_threshold_ge(relevance_score) == relevance_score >= Threshold

passes_threshold(relevance_score) == relevance_score > Threshold

\* The loop of _analyze_results: walk results in order, append the relevant ones.
RECURSIVE filter_relevant(_, _, _)
filter_relevant(results, original_text, acc) ==
    IF results = <<>> THEN acc
    ELSE filter_relevant(Tail(results), original_text,
            IF passes_threshold(calculate_relevance(Head(results), original_text))
            THEN Append(acc, Head(results))
            ELSE acc)

-----------------------------------------------------------------------------
(* The search service *)

\* requests.get raises, raise_for_status raises, response.json() raises, or the
\* decoded body is not a JSON object and data.get raises.
SearchFaults ==
    { [kind |-> "raise", exc |-> [type |-> "ConnectionError", msg |-> <<"connection refused">>]],
      [kind |-> "raise", exc |-> [type |-> "HTTPError", msg |-> <<"403 Client Error">>]],
      [kind |-> "raise", exc |-> [type |-> "JSONDecodeError", msg |-> <<"Expecting value">>]],
      [kind |-> "raise", exc |-> [type |-> "AttributeError", msg |-> <<"'list' object has no attribute 'get'">>]] }

SearchAnswers ==
    { [kind |-> "json", has_items |-> TRUE, items |-> s] : s \in ResultLists }
    \cup { [kind |-> "json", has_items |-> FALSE, items |-> <<>>] }

SearchResponses == SearchFaults \cup SearchAnswers

RequestExceptions == {"ConnectionError", "HTTPError"}

Exception(msg) == [type |-> "Exception", msg |-> msg]

Raised(e) == [raised |-> TRUE, exc |-> e]
Returned(v) == [raised |-> FALSE, value |-> v]

perform_search_swallow(query, resp) ==
    IF resp.kind = "raise" THEN Returned(<<>>)
    ELSE Returned(IF resp.has_items THEN resp.items ELSE <<>>)

\* _perform_search: one request, no retry; every failure is re-raised wrapped.
perform_search(query, resp) ==
    IF resp.kind = "raise" THEN
        IF resp.exc.type \in RequestExceptions
        THEN Raised(Exception(<<"API request failed: ">> \o resp.exc.msg))
        ELSE IF resp.exc.type = "JSONDecodeError"
        THEN Raised(Exception(<<"Failed to parse API response: ">> \o resp.exc.msg))
        ELSE Raised(Exception(<<"Search error: ">> \o resp.exc.msg))
    ELSE Returned(IF resp.has_items THEN resp.items ELSE <<>>)

-----------------------------------------------------------------------------
(* The reasoning oracle: text in, text out *)

FenceTok == [t |-> "fence"]      \* three backticks
TagTok == [t |-> "json"]         \* the word json right after a fence
ProseTok == [t |-> "prose"]
ValueTok(v) == [t |-> "value", v |-> v]

JsonArray == [kind |-> "array"]
JsonObject(fields) == [kind |-> "object", fields |-> fields]

Restrict(f, D) == [k \in D |-> f[k]]

\* Inside a JSON string: a run of three backticks, and the word json.
StrFence == "BACKTICKS"
StrTag == "json"

\* The fields of a JSON object that hold free text (sequences of pieces).
TextKeys == {"message", "reasoning", "broader_query", "simpler_query"}

\* The three ways the oracle can present one JSON value.
Bare(v) == <<ValueTok(v)>>
FencedJson(v) == <<FenceTok, TagTok, ValueTok(v), FenceTok>>
FencedPlain(v) == <<FenceTok, ValueTok(v), FenceTok>>

Wrappings(v) == { Bare(v), FencedJson(v), FencedPlain(v) }

OracleRaises == [raises |-> TRUE, exc |-> [type |-> "ServiceUnavailable", msg |-> <<"503">>]]
OracleSays(text) == [raises |-> FALSE, text |-> text]

\* str.replace works on the characters of the whole reply: on the fences
\* around the JSON value and on backticks inside its strings alike.
RECURSIVE drop_pairs(_, _, _)
drop_pairs(s, a, b) ==
    IF s = <<>> THEN <<>>
    ELSE IF Len(s) >= 2 /\ s[1] = a /\ s[2] = b
    THEN drop_pairs(SubSeq(s, 3, Len(s)), a, b)
    ELSE <<Head(s)>> \o drop_pairs(Tail(s), a, b)

drop_all(s, a) == SelectSeq(s, LAMBDA x : x # a)

\* str.replace(old, '') on the characters of one string: old is a fence, or a
\* fence followed by the tag.
replace_in_string(str, old) ==
    IF Len(old) = 2 THEN drop_pairs(str, old[1], old[2]) ELSE drop_all(str, old[1])

\* The same replacement in every free-text field inside the JSON values of a reply.
in_strings(text, old) ==
    [i \in DOMAIN text |->
        IF text[i].t = "value" /\ text[i].v.kind = "object"
        THEN ValueTok(JsonObject(
                [k \in DOMAIN text[i].v.fields |->
                    IF k \in TextKeys THEN replace_in_string(text[i].v.fields[k], old) ELSE text[i].v.fields[k]]))
        ELSE text[i]]

\* str.replace(fence + 'json', ''): drop every fence that is followed by the tag.
remove_tagged_fences(text) ==
    in_strings(drop_pairs(text, FenceTok, TagTok), <<StrFence, StrTag>>)

\* str.replace(fence, '')
remove_fences(text) ==
    in_strings(drop_all(text, FenceTok), <<StrFence>>)

strip_fence(response_text) ==
    IF Len(response_text) >= 2 /\ response_text[1] = FenceTok /\ response_text[2] = TagTok
    THEN remove_fences(remove_tagged_fences(response_text))
    ELSE IF Len(response_text) >= 1 /\ response_text[1] = FenceTok
    THEN remove_fences(response_text)
    ELSE response_text

\* json.loads: succeeds on exactly one JSON value.
json_loads(response_text) ==
    IF Len(response_text) = 1 /\ response_text[1].t = "value"
    THEN Returned(response_text[1].v)
    ELSE Raised([type |-> "JSONDecodeError", msg |-> <<"Expecting value">>])

Truthy(s) == s # <<>>

\* Kind of reply, for the history only: the call raised, the text holds no
\* JSON object, or it holds one.
JsonObjectsIn(text) ==
    { text[i].v.fields : i \in { j \in DOMAIN text : text[j].t = "value" /\ text[j].v.kind = "object" } }

ReplyKind(resp) ==
    IF resp.raises THEN "raised"
    ELSE IF JsonObjectsIn(resp.text) = {} THEN "unparsable"
    ELSE "object"

\* The JSON object the oracle sent, for the history only.
SentObject(resp) ==
    IF ReplyKind(resp) = "object"
    THEN CHOOSE o \in JsonObjectsIn(resp.text) : TRUE
    ELSE Restrict([none |-> TRUE], {})

\* Does the reply name the original query as the broader query?
SameQuery(resp, query) ==
    /\ ~resp.raises
    /\ \E o \in JsonObjectsIn(resp.text) : "broader_query" \in DOMAIN o /\ o["broader_query"] = query

-----------------------------------------------------------------------------
(* Query broadening *)

BroadenObjects(query) ==
    LET full == [broader_query : {<<>>, query, <<"broader">>},
                 simpler_query : {<<"simpler">>}]
    IN  { Restrict(f, D) : f \in full, D \in SUBSET {"broader_query", "simpler_query"} }

BroadenResponses(query) ==
    {OracleRaises, OracleSays(<<ProseTok>>)}
    \cup { OracleSays(w) : w \in Wrappings(JsonArray) }
    \cup UNION { { OracleSays(w) : w \in Wrappings(JsonObject(o)) } : o \in BroadenObjects(query) }

\* alternatives.get(key) and alternatives[key] != query
usable_query(alternatives, key, query) ==
    /\ key \in DOMAIN alternatives
    /\ Truthy(alternatives[key])
    /\ alternatives[key] # query

\* _create_alternative_queries: the list of queries, or None when anything raised
\* (the except branch prints and falls off the end of the function).
create_alternative_queries(query, resp) ==
    IF resp.raises THEN None
    ELSE LET parsed == json_loads(strip_fence(resp.text))
         IN  IF parsed.raised THEN None
             ELSE IF parsed.value.kind # "object" THEN None
             ELSE LET alternatives == parsed.value.fields
                      broader == IF usable_query(alternatives, "broader_query", query)
                                 THEN <<alternatives["broader_query"]>> ELSE <<>>
                      simpler == IF usable_query(alternatives, "simpler_query", query)
                                 THEN <<alternatives["simpler_query"]>> ELSE <<>>
                  IN  PyList(broader \o simpler)

-----------------------------------------------------------------------------
(* Verdict synthesis *)

VerdictKeys == {"verdict", "verified", "message", "confidence", "reasoning"}

VerdictObjects ==
    LET full == [verdict : {"true", "false", "partly true"},
                 verified : BOOLEAN,
                 message : {<<>>, <<"explanation">>, <<"run ", StrFence, StrTag, " x ", StrFence>>},
                 confidence : {"high"},
                 reasoning : {<<"steps">>}]
    IN  { Restrict(f, D) : f \in full, D \in SUBSET VerdictKeys }

VerdictResponses ==
    {OracleRaises, OracleSays(<<ProseTok>>)}
    \cup { OracleSays(w) : w \in Wrappings(JsonArray) }
    \cup UNION { { OracleSays(w) : w \in Wrappings(JsonObject(o)) } : o \in VerdictObjects }

AnalysisDefaults ==
    [verdict |-> "uncertain", verified |-> FALSE, message |-> <<"Analysis completed">>,
     confidence |-> "medium", reasoning |-> <<"Analysis completed">>]

fallback_analysis_error(results) ==
    [verified |-> FALSE,
     verdict |-> "error",
     message |-> <<"Analysis failed">>,
     confidence |-> "low",
     relevant_results_count |-> Len(results),
     analysis_method |-> "fallback"]

fallback_analysis(results) ==
    [verified |-> FALSE,
     verdict |-> "uncertain",
     message |-> <<"Unable to determine claim accuracy from available sources. Found fact-checking articles but analysis failed.">>,
     confidence |-> "low",
     relevant_results_count |-> Len(results),
     analysis_method |-> "fallback"]

PromptLimit == 5

\* results[-5:]
prompt_sources_last(results) ==
    SubSeq(results, Len(results) - Min(PromptLimit, Len(results)) + 1, Len(results))

\* results[:5], the entries written into the prompt
prompt_sources(results) == SubSeq(results, 1, Min(PromptLimit, Len(results)))

\* _analyze_with_gemini: every failure inside the try ends in _fallback_analysis.
analyze_with_gemini(original_text, results, resp) ==
    IF resp.raises THEN fallback_analysis(results)
    ELSE LET parsed == json_loads(strip_fence(resp.text))
         IN  IF parsed.raised THEN fallback_analysis(results)
             ELSE IF parsed.value.kind # "object" THEN fallback_analysis(results)
             ELSE LET analysis == parsed.value.fields @@ AnalysisDefaults
                  IN  [k \in DOMAIN analysis \cup {"relevant_results_count", "analysis_method"} |->
                          IF k = "relevant_results_count" THEN Len(results)
                          ELSE IF k = "analysis_method" THEN "gemini"
                          ELSE analysis[k]]

no_results_analysis ==
    [verified |-> FALSE, verdict |-> "no_content",
     message |-> <<"No fact-checked information found for this claim">>]

no_relevant_analysis_uncertain ==
    [verified |-> FALSE, verdict |-> "uncertain",
     message |-> <<"No relevant fact-checked information found for this specific claim">>]

no_relevant_analysis ==
    [verified |-> FALSE, verdict |-> "no_content",
     message |-> <<"No relevant fact-checked information found for this specific claim">>]

-----------------------------------------------------------------------------
(* verify(): report assembly *)

no_content_report(text) ==
    [verified |-> FALSE,
     verdict |-> "no_content",
     message |-> <<"No fact-checked information found for this claim">>,
     details |-> [claim_text |-> text, claim_context |-> DefaultContext,
                  claim_date |-> DefaultDate, fact_checks |-> <<>>]]

analysis_report_no_evidence(text, results, analysis) ==
    [verified |-> analysis.verified,
     verdict |-> analysis.verdict,
     message |-> analysis.message,
     details |-> [claim_text |-> text, claim_context |-> DefaultContext,
                  claim_date |-> DefaultDate, fact_checks |-> <<>>,
                  analysis |-> analysis]]

analysis_report(text, results, analysis) ==
    [verified |-> analysis.verified,
     verdict |-> analysis.verdict,
     message |-> analysis.message,
     details |-> [claim_text |-> text, claim_context |-> DefaultContext,
                  claim_date |-> DefaultDate, fact_checks |-> results,
                  analysis |-> analysis]]

error_report(text, e) ==
    [verified |-> FALSE,
     verdict |-> "error",
     message |-> <<"Error during fact-checking: ">> \o e.msg,
     details |-> [claim_text |-> text, claim_context |-> DefaultContext,
                  claim_date |-> DefaultDate, error |-> e.msg]]

ExceptionClasses ==
    {"Exception", "ConnectionError", "HTTPError", "JSONDecodeError", "AttributeError",
     "ServiceUnavailable"}

verify_catches_requests_only(e) == e.type \in RequestExceptions

\* "except Exception as e" of verify()
verify_catches(e) == e.type \in ExceptionClasses

-----------------------------------------------------------------------------
(* Aggregation of verdicts *)

VerdictInputs == {"true", "false", "mixed", "uncertain", "unknown", "half true"}

VerdictLists == SeqsUpTo(VerdictInputs, MaxVerdicts)

\* list.count
count(list, v) == Cardinality({ i \in DOMAIN list : list[i] = v })

Tally(list) ==
    [true_count |-> count(list, "true"),
     false_count |-> count(list, "false"),
     mixed_count |-> count(list, "mixed"),
     uncertain_count |-> count(list, "uncertain"),
     unknown_count |-> count(list, "unknown"),
     total_verdicts |-> Len(list)]

\* majority-style precedence: corroboration is looked at before refutation
analyze_verdicts_true_first(list) ==
    IF list = <<>> THEN
        [verified |-> FALSE, verdict |-> "uncertain", message |-> <<"No verdicts found">>]
    ELSE
        LET overall ==
                IF count(list, "true") > 0 THEN [verdict |-> "true", verified |-> TRUE]
                ELSE IF count(list, "false") > 0 THEN [verdict |-> "false", verified |-> FALSE]
                ELSE IF count(list, "mixed") > 0 THEN [verdict |-> "mixed", verified |-> FALSE]
                ELSE IF count(list, "uncertain") > 0 THEN [verdict |-> "uncertain", verified |-> FALSE]
                ELSE [verdict |-> "unknown", verified |-> FALSE]
        IN  [verified |-> overall.verified, verdict |-> overall.verdict] @@ Tally(list)

\* the guard for the empty list is missing
analyze_verdicts_no_guard(list) ==
    LET overall ==
            IF count(list, "false") > 0 THEN [verdict |-> "false", verified |-> FALSE]
            ELSE IF count(list, "true") > 0 THEN [verdict |-> "true", verified |-> TRUE]
            ELSE IF count(list, "mixed") > 0 THEN [verdict |-> "mixed", verified |-> FALSE]
            ELSE IF count(list, "uncertain") > 0 THEN [verdict |-> "uncertain", verified |-> FALSE]
            ELSE [verdict |-> "unknown", verified |-> FALSE]
    IN  [verified |-> overall.verified, verdict |-> overall.verdict] @@ Tally(list)

\* the first verdict of the list decides
analyze_verdicts_first_decides(list) ==
    IF list = <<>> THEN
        [verified |-> FALSE, verdict |-> "uncertain", message |-> <<"No verdicts found">>]
    ELSE
        LET known == {"true", "false", "mixed", "uncertain"}
            overall == [verdict |-> IF list[1] \in known THEN list[1] ELSE "unknown",
                        verified |-> list[1] = "true"]
        IN  [verified |-> overall.verified, verdict |-> overall.verdict] @@ Tally(list)

analyze_verdicts(list) ==
    IF list = <<>> THEN
        [verified |-> FALSE, verdict |-> "uncertain", message |-> <<"No verdicts found">>]
    ELSE
        LET true_count == count(list, "true")
            false_count == count(list, "false")
            mixed_count == count(list, "mixed")
            uncertain_count == count(list, "uncertain")
            unknown_count == count(list, "unknown")
            overall ==
                IF false_count > 0 THEN [verdict |-> "false", verified |-> FALSE]
                ELSE IF true_count > 0 /\ false_count = 0 THEN [verdict |-> "true", verified |-> TRUE]
                ELSE IF mixed_count > 0 THEN [verdict |-> "mixed", verified |-> FALSE]
                ELSE IF uncertain_count > 0 THEN [verdict |-> "uncertain", verified |-> FALSE]
                ELSE [verdict |-> "unknown", verified |-> FALSE]
        IN  [verified |-> overall.verified,
             verdict |-> overall.verdict,
             true_count |-> true_count,
             false_count |-> false_count,
             mixed_count |-> mixed_count,
             uncertain_count |-> uncertain_count,
             unknown_count |-> unknown_count,
             total_verdicts |-> Len(list)]

-----------------------------------------------------------------------------
(* One verify() call, step by step *)

Init ==
    /\ pc = "start"
    /\ text_input = NoText
    /\ search_results = <<>>
    /\ alternative_queries = None
    /\ relevant_results = <<>>
    /\ reports = <<>>
    /\ escaped = <<>>
    /\ search_log = <<>>
    /\ search_returns = <<>>
    /\ oracle_log = <<>>
    /\ verdicts = <<>>
    /\ aggregate = <<>>
    /\ candidate = NoCandidate
    /\ relevance = <<>>
    /\ payload = JsonArray
    /\ parses = <<>>
    /\ pipelines = <<>>
    /\ content = <<>>
    /\ extracted = <<>>
    /\ workflow = <<>>
    /\ orchestrator = <<>>
    /\ scan = <<>>

\* An exception reaches the try/except of verify().
Raise(e) ==
    /\ pc' = "done"
    /\ IF verify_catches(e)
       THEN reports' = Append(reports, error_report(text_input, e)) /\ escaped' = escaped
       ELSE escaped' = Append(escaped, e) /\ reports' = reports

Return(report) ==
    /\ pc' = "done"
    /\ reports' = Append(reports, report)
    /\ escaped' = escaped

Verify(text) ==
    /\ pc = "start"
    /\ pc' = "search"
    /\ text_input' = text
    /\ UNCHANGED <<search_results, alternative_queries, relevant_results, reports, escaped,
                   search_log, search_returns, oracle_log, pure_vars>>

needs_broadening_short(results) == Len(results) < 2

\* _search_claims: "if not results"
needs_broadening(results) == results = <<>>

\* _search_claims: results = await self._perform_search(query)
SearchOriginal(resp) ==
    /\ pc = "search"
    /\ LET r == perform_search(PyStr(text_input), resp)
       IN  /\ search_log' = Append(search_log,
                  [query |-> PyStr(text_input), failed |-> resp \in SearchFaults])
           /\ search_returns' = Append(search_returns, r)
           /\ IF r.raised
              THEN Raise(r.exc) /\ UNCHANGED search_results
              ELSE /\ search_results' = r.value
                   /\ pc' = IF needs_broadening(r.value) THEN "broaden" ELSE "analyze"
                   /\ UNCHANGED <<reports, escaped>>
    /\ UNCHANGED <<text_input, alternative_queries, relevant_results, oracle_log,
                   pure_vars>>

\* _search_claims: alternative_queries = self._create_alternative_queries(query)
CreateAlternativeQueries ==
    /\ pc = "broaden"
    /\ \E resp \in BroadenResponses(text_input) :
          /\ alternative_queries' = create_alternative_queries(text_input, resp)
          /\ oracle_log' = Append(oracle_log,
                 [purpose |-> "broaden", query |-> text_input, reply |-> ReplyKind(resp),
                  same_query |-> SameQuery(resp, text_input)])
    /\ pc' = "search_alt"
    /\ UNCHANGED <<text_input, search_results, relevant_results, reports, escaped,
                   search_log, search_returns, pure_vars>>

\* an empty broadened search starts one more broadening round
SearchAlternativeAgain(resp) ==
    /\ pc = "search_alt"
    /\ LET r == perform_search(alternative_queries, resp)
       IN  /\ search_log' = Append(search_log,
                  [query |-> alternative_queries, failed |-> resp \in SearchFaults])
           /\ search_returns' = Append(search_returns, r)
           /\ IF r.raised
              THEN Raise(r.exc) /\ UNCHANGED search_results
              ELSE /\ search_results' = r.value
                   /\ IF r.value = <<>> /\ Len(search_log) < 2
                      THEN pc' = "broaden" /\ UNCHANGED <<reports, escaped>>
                      ELSE IF r.value = <<>>
                      THEN Return(no_content_report(text_input))
                      ELSE pc' = "analyze" /\ UNCHANGED <<reports, escaped>>
    /\ UNCHANGED <<text_input, alternative_queries, relevant_results, oracle_log,
                   pure_vars>>

\* _search_claims: results = await self._perform_search(alternative_queries),
\* then verify(): "if not search_results" returns the no_content report.
SearchAlternative(resp) ==
    /\ pc = "search_alt"
    /\ LET r == perform_search(alternative_queries, resp)
       IN  /\ search_log' = Append(search_log,
                  [query |-> alternative_queries, failed |-> resp \in SearchFaults])
           /\ search_returns' = Append(search_returns, r)
           /\ IF r.raised
              THEN Raise(r.exc) /\ UNCHANGED search_results
              ELSE /\ search_results' = r.value
                   /\ IF r.value = <<>>
                      THEN Return(no_content_report(text_input))
                      ELSE pc' = "analyze" /\ UNCHANGED <<reports, escaped>>
    /\ UNCHANGED <<text_input, alternative_queries, relevant_results, oracle_log,
                   pure_vars>>

\* the oracle is asked whenever the search found anything
AnalyzeResultsUnfiltered ==
    /\ pc = "analyze"
    /\ LET relevant == filter_relevant(search_results, text_input, <<>>)
       IN  /\ relevant_results' = relevant
           /\ IF search_results = <<>>
              THEN Return(analysis_report(text_input, search_results, no_results_analysis))
              ELSE pc' = "synthesize" /\ UNCHANGED <<reports, escaped>>
    /\ UNCHANGED <<text_input, search_results, alternative_queries, search_log,
                   search_returns, oracle_log, pure_vars>>

\* _analyze_results up to the call of _analyze_with_gemini
AnalyzeResults ==
    /\ pc = "analyze"
    /\ LET relevant == filter_relevant(search_results, text_input, <<>>)
       IN  /\ relevant_results' = relevant
           /\ IF search_results = <<>>
              THEN Return(analysis_report(text_input, search_results, no_results_analysis))
              ELSE IF relevant = <<>>
              THEN Return(analysis_report(text_input, search_results, no_relevant_analysis))
              ELSE pc' = "synthesize" /\ UNCHANGED <<reports, escaped>>
    /\ UNCHANGED <<text_input, search_results, alternative_queries, search_log,
                   search_returns, oracle_log, pure_vars>>

\* _analyze_with_gemini and the return of verify()
AnalyzeWithGemini(resp) ==
    /\ pc = "synthesize"
    /\ oracle_log' = Append(oracle_log,
           [purpose |-> "verdict", claim |-> text_input,
            sources |-> prompt_sources(relevant_results), reply |-> ReplyKind(resp),
            sent |-> SentObject(resp)])
    /\ Return(analysis_report(text_input, search_results,
                              analyze_with_gemini(text_input, relevant_results, resp)))
    /\ UNCHANGED <<text_input, search_results, alternative_queries, relevant_results,
                   search_log, search_returns, pure_vars>>

Next ==
    \/ \E text \in Texts : Verify(text)
    \/ \E resp \in SearchResponses : SearchOriginal(resp)
    \/ CreateAlternativeQueries
    \/ \E resp \in SearchResponses : SearchAlternative(resp)
    \/ AnalyzeResults
    \/ \E resp \in VerdictResponses : AnalyzeWithGemini(resp)

Spec == Init /\ [][Next]_vars

-----------------------------------------------------------------------------
(* The aggregator applied to every bounded verdict list *)

InitAgg ==
    /\ pc = "aggregate"
    /\ text_input = NoText
    /\ search_results = <<>>
    /\ alternative_queries = None
    /\ relevant_results = <<>>
    /\ reports = <<>>
    /\ escaped = <<>>
    /\ search_log = <<>>
    /\ search_returns = <<>>
    /\ oracle_log = <<>>
    /\ verdicts \in VerdictLists
    /\ aggregate = <<>>
    /\ candidate = NoCandidate
    /\ relevance = <<>>
    /\ payload = JsonArray
    /\ parses = <<>>
    /\ pipelines = <<>>
    /\ content = <<>>
    /\ extracted = <<>>
    /\ workflow = <<>>
    /\ orchestrator = <<>>
    /\ scan = <<>>

AnalyzeVerdicts ==
    /\ pc = "aggregate"
    /\ aggregate' = Append(aggregate, analyze_verdicts(verdicts))
    /\ pc' = "aggregated"
    /\ UNCHANGED <<text_input, search_results, alternative_queries, relevant_results,
                   reports, escaped, search_log, search_returns, oracle_log, verdicts,
                   candidate, relevance, payload, parses, pipelines,
                   content, extracted, workflow, orchestrator, scan>>

NextAgg == AnalyzeVerdicts

SpecAgg == InitAgg /\ [][NextAgg]_vars

-----------------------------------------------------------------------------
(* The scorer applied to every candidate of the bounded set *)

\* the variables of one verify() call, at rest
verify_vars == <<text_input, search_results, alternative_queries, relevant_results,
                 reports, escaped, search_log, search_returns, oracle_log>>

NoVerify ==
    /\ search_results = <<>>
    /\ alternative_queries = None
    /\ relevant_results = <<>>
    /\ reports = <<>>
    /\ escaped = <<>>
    /\ search_log = <<>>
    /\ search_returns = <<>>
    /\ oracle_log = <<>>

InitScore ==
    /\ pc = "score"
    /\ text_input \in Texts
    /\ NoVerify
    /\ verdicts = <<>>
    /\ aggregate = <<>>
    /\ candidate \in Candidates
    /\ relevance = <<>>
    /\ payload = JsonArray
    /\ parses = <<>>
    /\ pipelines = <<>>
    /\ content = <<>>
    /\ extracted = <<>>
    /\ workflow = <<>>
    /\ orchestrator = <<>>
    /\ scan = <<>>

CalculateRelevance ==
    /\ pc = "score"
    /\ relevance' = Append(relevance, calculate_relevance(candidate, text_input))
    /\ pc' = "scored"
    /\ UNCHANGED <<verify_vars, verdicts, aggregate, candidate, payload, parses, pipelines,
                   content, extracted, workflow, orchestrator, scan>>

NextScore == CalculateRelevance

SpecScore == InitScore /\ [][NextScore]_vars

-----------------------------------------------------------------------------
(* The synthesis stage on longer lists of filtered candidates: verify() after *)
(* a first search whose results all passed the filter                         *)

RelevantDocs == { d \in Docs : passes_threshold(calculate_relevance(d, NoText)) }

EvidenceLists == SeqsUpTo(RelevantDocs, MaxEvidence) \ {<<>>}

InitSynth ==
    /\ pc = "synthesize"
    /\ text_input = <<"claim A">>
    /\ search_results \in EvidenceLists
    /\ relevant_results = search_results
    /\ alternative_queries = None
    /\ reports = <<>>
    /\ escaped = <<>>
    /\ search_log = <<[query |-> PyStr(text_input), failed |-> FALSE]>>
    /\ search_returns = <<Returned(search_results)>>
    /\ oracle_log = <<>>
    /\ verdicts = <<>>
    /\ aggregate = <<>>
    /\ candidate = NoCandidate
    /\ relevance = <<>>
    /\ payload = JsonArray
    /\ parses = <<>>
    /\ pipelines = <<>>
    /\ content = <<>>
    /\ extracted = <<>>
    /\ workflow = <<>>
    /\ orchestrator = <<>>
    /\ scan = <<>>

NextSynth == \E resp \in VerdictResponses : AnalyzeWithGemini(resp)

SpecSynth == InitSynth /\ [][NextSynth]_vars

-----------------------------------------------------------------------------
(* The reply parser applied to the three presentations of every JSON object *)

\* response_text.strip(), the fence handling and json.loads of _analyze_with_gemini
parse_reply(response_text) == json_loads(strip_fence(response_text))

InitParse ==
    /\ pc = "parse"
    /\ text_input = NoText
    /\ NoVerify
    /\ verdicts = <<>>
    /\ aggregate = <<>>
    /\ candidate = NoCandidate
    /\ relevance = <<>>
    /\ payload \in { JsonObject(o) : o \in VerdictObjects }
    /\ parses = <<>>
    /\ pipelines = <<>>
    /\ content = <<>>
    /\ extracted = <<>>
    /\ workflow = <<>>
    /\ orchestrator = <<>>
    /\ scan = <<>>

ParseReplies ==
    /\ pc = "parse"
    /\ parses' = Append(parses, [bare |-> parse_reply(Bare(payload)),
                                 fenced_json |-> parse_reply(FencedJson(payload)),
                                 fenced_plain |-> parse_reply(FencedPlain(payload))])
    /\ pc' = "parsed"
    /\ UNCHANGED <<verify_vars, verdicts, aggregate, candidate, relevance, payload, pipelines,
                   content, extracted, workflow, orchestrator, scan>>

NextParse == ParseReplies

SpecParse == InitParse /\ [][NextParse]_vars

-----------------------------------------------------------------------------
(* Concurrent verify() calls on one TextFactChecker.  The object holds only   *)
(* the credentials and the model handle set by __init__; everything verify()  *)
(* works on is a local of the call, kept here in the call's own frame.        *)

Pipelines == 1..NPipelines

ClaimOf(p) == <<"claim ", ToString(p)>>

frame_shared(p) == 1

\* the frame holding the locals of call p
frame(p) == p

NewCall == [pc |-> "start", served |-> <<>>, report |-> <<>>]

NewFrame ==
    [text_input |-> NoText, search_results |-> <<>>, alternative_queries |-> None,
     relevant_results |-> <<>>]

Locals(p) == pipelines.frames[frame(p)]

\* Call p moves on; its locals are written to its frame.
Step(p, call, locals) ==
    /\ pipelines' = [calls |-> [pipelines.calls EXCEPT ![p] = call],
                     frames |-> [pipelines.frames EXCEPT ![frame(p)] = locals]]
    /\ UNCHANGED single_vars

Served(p, resp) == Append(pipelines.calls[p].served, resp)

Finished(p, resp, outcome) == [pc |-> "done", served |-> Served(p, resp), report |-> outcome]

Failed(text, e) == IF verify_catches(e) THEN <<error_report(text, e)>> ELSE <<>>

ConcSearchResponses ==
    { resp \in SearchResponses :
        IF resp.kind = "raise" THEN resp.exc.type = "ConnectionError"
        ELSE resp.has_items /\ Len(resp.items) <= 1 }

ConcBroadenResponses ==
    {OracleRaises, OracleSays(Bare(JsonObject([broader_query |-> <<"broader">>])))}

ConcVerdictResponses ==
    {OracleRaises, OracleSays(Bare(JsonObject([verdict |-> "true", verified |-> TRUE])))}

InitConc ==
    /\ pc = "concurrent"
    /\ text_input = NoText
    /\ NoVerify
    /\ verdicts = <<>>
    /\ aggregate = <<>>
    /\ candidate = NoCandidate
    /\ relevance = <<>>
    /\ payload = JsonArray
    /\ parses = <<>>
    /\ pipelines = [calls |-> [p \in Pipelines |-> NewCall],
                    frames |-> [p \in Pipelines |-> NewFrame]]
    /\ content = <<>>
    /\ extracted = <<>>
    /\ workflow = <<>>
    /\ orchestrator = <<>>
    /\ scan = <<>>

ConcVerify(p) ==
    /\ pc = "concurrent"
    /\ pipelines.calls[p].pc = "start"
    /\ Step(p, [pipelines.calls[p] EXCEPT !.pc = "search"],
               [Locals(p) EXCEPT !.text_input = ClaimOf(p)])

ConcSearchOriginal(p, resp) ==
    /\ pc = "concurrent"
    /\ pipelines.calls[p].pc = "search"
    /\ LET r == perform_search(PyStr(Locals(p).text_input), resp)
       IN  IF r.raised
           THEN Step(p, Finished(p, resp, Failed(Locals(p).text_input, r.exc)), Locals(p))
           ELSE Step(p, [pc |-> IF needs_broadening(r.value) THEN "broaden" ELSE "analyze",
                         served |-> Served(p, resp), report |-> <<>>],
                        [Locals(p) EXCEPT !.search_results = r.value])

ConcCreateAlternativeQueries(p, resp) ==
    /\ pc = "concurrent"
    /\ pipelines.calls[p].pc = "broaden"
    /\ Step(p, [pc |-> "search_alt", served |-> Served(p, resp), report |-> <<>>],
               [Locals(p) EXCEPT
                   !.alternative_queries = create_alternative_queries(Locals(p).text_input, resp)])

ConcSearchAlternative(p, resp) ==
    /\ pc = "concurrent"
    /\ pipelines.calls[p].pc = "search_alt"
    /\ LET r == perform_search(Locals(p).alternative_queries, resp)
       IN  IF r.raised
           THEN Step(p, Finished(p, resp, Failed(Locals(p).text_input, r.exc)), Locals(p))
           ELSE IF r.value = <<>>
           THEN Step(p, Finished(p, resp, <<no_content_report(Locals(p).text_input)>>),
                        [Locals(p) EXCEPT !.search_results = r.value])
           ELSE Step(p, [pc |-> "analyze", served |-> Served(p, resp), report |-> <<>>],
                        [Locals(p) EXCEPT !.search_results = r.value])

ConcAnalyzeResults(p) ==
    /\ pc = "concurrent"
    /\ pipelines.calls[p].pc = "analyze"
    /\ LET relevant == filter_relevant(Locals(p).search_results, Locals(p).text_input, <<>>)
       IN  IF Locals(p).search_results = <<>> \/ relevant = <<>>
           THEN Step(p, [pipelines.calls[p] EXCEPT
                            !.pc = "done",
                            !.report = <<analysis_report(Locals(p).text_input,
                                             Locals(p).search_results,
                                             IF Locals(p).search_results = <<>>
                                             THEN no_results_analysis
                                             ELSE no_relevant_analysis)>>],
                        [Locals(p) EXCEPT !.relevant_results = relevant])
           ELSE Step(p, [pipelines.calls[p] EXCEPT !.pc = "synthesize"],
                        [Locals(p) EXCEPT !.relevant_results = relevant])

ConcAnalyzeWithGemini(p, resp) ==
    /\ pc = "concurrent"
    /\ pipelines.calls[p].pc = "synthesize"
    /\ Step(p, Finished(p, resp,
                   <<analysis_report(Locals(p).text_input, Locals(p).search_results,
                         analyze_with_gemini(Locals(p).text_input,
                                             Locals(p).relevant_results, resp))>>),
               Locals(p))

NextConc ==
    \/ \E p \in Pipelines : ConcVerify(p)
    \/ \E p \in Pipelines, resp \in ConcSearchResponses : ConcSearchOriginal(p, resp)
    \/ \E p \in Pipelines, resp \in ConcBroadenResponses : ConcCreateAlternativeQueries(p, resp)
    \/ \E p \in Pipelines, resp \in ConcSearchResponses : ConcSearchAlternative(p, resp)
    \/ \E p \in Pipelines : ConcAnalyzeResults(p)
    \/ \E p \in Pipelines, resp \in ConcVerdictResponses : ConcAnalyzeWithGemini(p, resp)

SpecConc == InitConc /\ [][NextConc]_vars

\* What one call of verify(text) alone makes of the responses it is served.
solo_analysis(text, results, served) ==
    LET relevant == filter_relevant(results, text, <<>>)
    IN  IF results = <<>>
        THEN <<analysis_report(text, results, no_results_analysis)>>
        ELSE IF relevant = <<>>
        THEN <<analysis_report(text, results, no_relevant_analysis)>>
        ELSE <<analysis_report(text, results, analyze_with_gemini(text, relevant, served[1]))>>

solo_report(text, served) ==
    LET first == perform_search(PyStr(text), served[1])
    IN  IF first.raised THEN Failed(text, first.exc)
        ELSE IF ~needs_broadening(first.value)
        THEN solo_analysis(text, first.value, Tail(served))
        ELSE LET second == perform_search(create_alternative_queries(text, served[2]), served[3])
             IN  IF second.raised THEN Failed(text, second.exc)
                 ELSE IF second.value = <<>> THEN <<no_content_report(text)>>
                 ELSE solo_analysis(text, second.value, SubSeq(served, 4, Len(served)))

-----------------------------------------------------------------------------
(* The keyword classifier of the fallback path.  A text is the sequence of   *)
(* its characters, so that "word in content_lower" is substring search.      *)

MaxWords == 2       \* words in a classified text

FalseWords ==
    { <<"f", "a", "l", "s", "e">>,
      <<"m", "i", "s", "l", "e", "a", "d", "i", "n", "g">>,
      <<"i", "n", "c", "o", "r", "r", "e", "c", "t">>,
      <<"d", "e", "b", "u", "n", "k", "e", "d">>,
      <<"n", "o", "t", " ", "t", "r", "u", "e">> }

TrueWords ==
    { <<"t", "r", "u", "e">>,
      <<"a", "c", "c", "u", "r", "a", "t", "e">>,
      <<"c", "o", "r", "r", "e", "c", "t">>,
      <<"v", "e", "r", "i", "f", "i", "e", "d">>,
      <<"c", "o", "n", "f", "i", "r", "m", "e", "d">>,
      <<"i", "s", " ", "t", "r", "u", "e">>,
      <<"i", "s", " ", "c", "o", "r", "r", "e", "c", "t">> }

MixedWords ==
    { <<"p", "a", "r", "t", "i", "a", "l", "l", "y">>,
      <<"m", "i", "x", "e", "d">>,
      <<"s", "o", "m", "e", "w", "h", "a", "t">>,
      <<"h", "a", "l", "f">> }

UncertainWords ==
    { <<"u", "n", "v", "e", "r", "i", "f", "i", "e", "d">>,
      <<"u", "n", "p", "r", "o", "v", "e", "n">>,
      <<"u", "n", "c", "e", "r", "t", "a", "i", "n">>,
      <<"d", "i", "s", "p", "u", "t", "e", "d">> }

OtherWords ==
    { <<"c", "l", "a", "i", "m">>,
      <<"F", "a", "l", "s", "e">>,
      <<"U", "N", "P", "R", "O", "V", "E", "N">>,
      <<"M", "i", "x", "e", "d">> }

\* str.lower() on the letters A to Z
LowerOf ==
    [A |-> "a", B |-> "b", C |-> "c", D |-> "d", E |-> "e", F |-> "f", G |-> "g",
     H |-> "h", I |-> "i", J |-> "j", K |-> "k", L |-> "l", M |-> "m", N |-> "n",
     O |-> "o", P |-> "p", Q |-> "q", R |-> "r", S |-> "s", T |-> "t", U |-> "u",
     V |-> "v", W |-> "w", X |-> "x", Y |-> "y", Z |-> "z"]

lower(text) == [i \in DOMAIN text |-> IF text[i] \in DOMAIN LowerOf THEN LowerOf[text[i]] ELSE text[i]]

Words == FalseWords \cup TrueWords \cup MixedWords \cup UncertainWords \cup OtherWords

RECURSIVE JoinWords(_)
JoinWords(words) ==
    IF words = <<>> THEN <<>>
    ELSE IF Len(words) = 1 THEN words[1]
    ELSE words[1] \o <<" ">> \o JoinWords(Tail(words))

\* any(word in content_lower for word in family)
any_word_in(family, content_lower) == \E word \in family : Embedded(word, content_lower)

\* the true family is looked for before the false family
extract_verdict_true_first(text) ==
    LET content_lower == lower(text)
    IN  IF any_word_in(TrueWords, content_lower) THEN "true"
        ELSE IF any_word_in(FalseWords, content_lower) THEN "false"
        ELSE IF any_word_in(MixedWords, content_lower) THEN "mixed"
        ELSE IF any_word_in(UncertainWords, content_lower) THEN "uncertain"
        ELSE "unknown"

extract_verdict_from_content(text) ==
    LET content_lower == lower(text)
    IN  IF any_word_in(FalseWords, content_lower) THEN "false"
        ELSE IF any_word_in(TrueWords, content_lower) THEN "true"
        ELSE IF any_word_in(MixedWords, content_lower) THEN "mixed"
        ELSE IF any_word_in(UncertainWords, content_lower) THEN "uncertain"
        ELSE "unknown"

InitExtract ==
    /\ pc = "classify"
    /\ text_input = NoText
    /\ NoVerify
    /\ verdicts = <<>>
    /\ aggregate = <<>>
    /\ candidate = NoCandidate
    /\ relevance = <<>>
    /\ payload = JsonArray
    /\ parses = <<>>
    /\ pipelines = <<>>
    /\ content \in { JoinWords(ws) : ws \in SeqsUpTo(Words, MaxWords) }
    /\ extracted = <<>>
    /\ workflow = <<>>
    /\ orchestrator = <<>>
    /\ scan = <<>>

ExtractVerdictFromContent ==
    /\ pc = "classify"
    /\ extracted' = Append(extracted, extract_verdict_from_content(content))
    /\ pc' = "classified"
    /\ UNCHANGED <<verify_vars, verdicts, aggregate, candidate, relevance, payload, parses,
                   pipelines, content, workflow, orchestrator, scan>>

SpecExtract == InitExtract /\ [][ExtractVerdictFromContent]_vars

-----------------------------------------------------------------------------
(* verify() when every collaborator call returns or raises: each await is    *)
(* followed by the next statement.  One response of each kind is enough to   *)
(* take every branch.                                                        *)

NextLive ==
    \/ \E text \in Texts : Verify(text)
    \/ \E resp \in ConcSearchResponses : SearchOriginal(resp)
    \/ CreateAlternativeQueries
    \/ \E resp \in ConcSearchResponses : SearchAlternative(resp)
    \/ AnalyzeResults
    \/ \E resp \in ConcVerdictResponses : AnalyzeWithGemini(resp)

SpecLive == Init /\ [][NextLive]_vars /\ WF_vars(NextLive)

-----------------------------------------------------------------------------
(* GoogleAgentsOrchestrator.execute_workflow.  A dict is a function from its *)
(* keys; a key is a tuple of string pieces.                                  *)

MaxTasks == 3       \* tasks in one workflow

EmptyDict == [k \in {} |-> <<>>]

\* self.agents: name -> role of the registered agents
Agents ==
    [trend_scanner |-> <<"Trend Scanning Coordinator">>,
     verifier_coordinator |-> <<"Claim Verification Coordinator">>]

\* the k-th task of a workflow
Task(k, agent_name, task_context) ==
    [agent |-> agent_name, task |-> <<"task ", ToString(k)>>, context |-> task_context]

TaskLists ==
    UNION { { [k \in 1..n |-> Task(k, names[k], ctxs[k])] :
                names \in [1..n -> DOMAIN Agents \cup {"report_writer"}],
                ctxs \in [1..n -> {EmptyDict,
                                   [k \in {<<"verification_mode">>} |-> <<"comprehensive">>]}] } :
            n \in 0..MaxTasks }

\* GoogleAgent.execute_task catches every exception: it returns a result or
\* an error result whose error is str(e), possibly the empty string.
TaskOutcomes ==
    {[ok |-> TRUE, msg |-> <<>>], [ok |-> FALSE, msg |-> <<"quota exceeded">>],
     [ok |-> FALSE, msg |-> <<>>]}

execute_task(role, task_description, outcome) ==
    IF outcome.ok
    THEN [agent_role |-> role, task |-> task_description, result |-> <<"response">>,
          tool_used |-> FALSE]
    ELSE [agent_role |-> role, task |-> task_description,
          result |-> <<"Task execution failed: ">> \o outcome.msg,
          error |-> outcome.msg, tool_used |-> FALSE]

not_registered(agent_name, task_description) ==
    [agent_role |-> <<agent_name>>, task |-> task_description,
     result |-> <<"Agent '", agent_name, "' not found">>,
     error |-> <<"Agent not registered: ", agent_name>>]

\* r.get('error') is truthy
has_error(r) == "error" \in DOMAIN r /\ r.error # <<>>

\* context['last_result'] = result; context[f'{agent_name}_result'] = result
\* (skipped by the continue of an unregistered agent)
next_context(context, agent_name, result) ==
    IF agent_name \in DOMAIN Agents
    THEN [k \in {<<"last_result">>, <<agent_name, "_result">>} |-> result] @@ context
    ELSE context

final_result(tasks, workflow_results) ==
    [total_tasks |-> Len(tasks),
     completed_tasks |-> Cardinality({ k \in DOMAIN workflow_results : ~has_error(workflow_results[k]) }),
     failed_tasks |-> Cardinality({ k \in DOMAIN workflow_results : has_error(workflow_results[k]) }),
     workflow_results |-> workflow_results]

InitWorkflow ==
    /\ pc = "workflow"
    /\ text_input = NoText
    /\ NoVerify
    /\ verdicts = <<>>
    /\ aggregate = <<>>
    /\ candidate = NoCandidate
    /\ relevance = <<>>
    /\ payload = JsonArray
    /\ parses = <<>>
    /\ pipelines = <<>>
    /\ content = <<>>
    /\ extracted = <<>>
    /\ \E tasks \in TaskLists :
          workflow = [tasks |-> tasks, i |-> 1, workflow_results |-> <<>>,
                      context |-> EmptyDict, executed |-> <<>>, returned |-> <<>>]
    /\ orchestrator = <<>>
    /\ scan = <<>>

workflow_unchanged ==
    UNCHANGED <<verify_vars, verdicts, aggregate, candidate, relevance, payload, parses,
                pipelines, content, extracted, orchestrator, scan>>

\* one turn of "for i, task in enumerate(tasks)"
ExecuteWorkflowTask ==
    /\ pc = "workflow"
    /\ workflow.i <= Len(workflow.tasks)
    /\ LET task == workflow.tasks[workflow.i]
           merged_context == task.context @@ workflow.context   \* {**context, **task_context}
       IN  \E outcome \in TaskOutcomes :
              LET registered == task.agent \in DOMAIN Agents
                  result == IF registered
                            THEN execute_task(Agents[task.agent], task.task, outcome)
                            ELSE not_registered(task.agent, task.task)
              IN  workflow' =
                      [workflow EXCEPT
                          !.i = @ + 1,
                          !.workflow_results = Append(@, result),
                          !.context = next_context(@, task.agent, result),
                          !.executed = IF registered
                                       THEN Append(@, [index |-> workflow.i,
                                                       context |-> merged_context])
                                       ELSE @]
    /\ pc' = pc
    /\ workflow_unchanged

\* after the loop: the final result is built and returned
ReturnWorkflow ==
    /\ pc = "workflow"
    /\ workflow.i = Len(workflow.tasks) + 1
    /\ workflow' = [workflow EXCEPT
                       !.returned = <<final_result(workflow.tasks, workflow.workflow_results)>>]
    /\ pc' = "workflow_done"
    /\ workflow_unchanged

NextWorkflow == ExecuteWorkflowTask \/ ReturnWorkflow

SpecWorkflow == InitWorkflow /\ [][NextWorkflow]_vars

-----------------------------------------------------------------------------
(* OrchestratorAgent.run_full_pipeline from the trend results on, and        *)
(* _process_orchestrator_workflow.  List positions count from 1.             *)

MaxPosts == 3       \* trending posts returned by the trend scanner

NoClaim == <<"No specific claim identified">>

\* lists of trending posts; the claim of the k-th post is its own claim, the
\* empty string or NoClaim
PostLists ==
    UNION { { [k \in 1..n |->
                 [claim |-> IF kinds[k] = "claim" THEN <<"claim ", ToString(k)>>
                            ELSE IF kinds[k] = "empty" THEN <<>> ELSE NoClaim,
                  summary |-> <<"summary ", ToString(k)>>,
                  Post_link |-> <<"link ", ToString(k)>>, platform |-> <<"reddit">>]] :
                kinds \in [1..n -> {"claim", "empty", "none identified"}] } :
            n \in 0..MaxPosts }

has_claim(post) == post.claim # <<>> /\ post.claim # NoClaim

\* Step 2: one content item per post that carries a claim, in post order
RECURSIVE prepare_content(_, _)
prepare_content(posts, i) ==
    IF i > Len(posts) THEN <<>>
    ELSE (IF has_claim(posts[i])
          THEN <<[title |-> <<"Claim: ">> \o posts[i].claim, content |-> posts[i].summary,
                  source |-> posts[i].Post_link, platform |-> posts[i].platform,
                  claim_metadata |-> [post_index |-> i, extracted_claim |-> posts[i].claim]]>>
          ELSE <<>>)
         \o prepare_content(posts, i + 1)

\* The claim verifier's answer for one content item: what it found for that claim.
verified_claim(item, found) ==
    [source_content |-> item,
     verification |-> [verified |-> found, verdict |-> IF found THEN "true" ELSE "false",
                       claim_text |-> item.claim_metadata.extracted_claim]]

\* ClaimVerifierOrchestrator.verify_content: one verified claim per content
\* item, in order, listed directly or inside a verify_claims workflow item.
verify_content(claims, success, direct) ==
    IF direct
    THEN [success |-> success, verified_claims |-> claims]
    ELSE [success |-> success,
          workflow_results |-> <<[task |-> "verify_claims",
                                  result |-> [verified_claims |-> claims]]>>]

\* the verifier tool raised and the agent answered in prose
text_verification ==
    [success |-> TRUE, message |-> <<"Verification completed with text response">>,
     workflow_results |-> <<>>, verified_claims |-> <<>>]

dict_get(d, k, default) == IF k \in DOMAIN d THEN d[k] ELSE default

\* verification_data: post index -> verification, as the two loops leave it
verification_data(verification_results) ==
    LET workflow_res == dict_get(verification_results, "workflow_results", <<>>)
        verify_items == { workflow_res[j] : j \in { k \in DOMAIN workflow_res :
                                                      workflow_res[k].task = "verify_claims" } }
        nested == IF verification_results.success
                  THEN UNION { { item.result.verified_claims[k] :
                                   k \in DOMAIN item.result.verified_claims } :
                               item \in verify_items }
                  ELSE {}
        by_index == [i \in { c.source_content.claim_metadata.post_index : c \in nested } |->
                        (CHOOSE c \in nested :
                            c.source_content.claim_metadata.post_index = i).verification]
        direct == dict_get(verification_results, "verified_claims", <<>>)
        by_position == [i \in DOMAIN direct |-> direct[i].verification]
    IN  by_position @@ by_index

verification_completed ==
    [verified |-> TRUE, verdict |-> "verification_completed",
     message |-> <<"Claim processed through Google Agents fact-checking workflow">>,
     confidence |-> "medium", sources_checked |-> TRUE]

verification_failed(verification_results) ==
    [verified |-> FALSE, verdict |-> "verification_failed",
     message |-> dict_get(verification_results, "message",
                          <<"Verification process encountered an error">>),
     error |-> dict_get(verification_results, "error", <<"Unknown error">>)]

process_orchestrator_workflow(posts, verification_results) ==
    LET data == verification_data(verification_results)
    IN  [i \in DOMAIN posts |->
            [claim |-> posts[i].claim, summary |-> posts[i].summary,
             platform |-> posts[i].platform, Post_link |-> posts[i].Post_link,
             verification |->
                IF i \in DOMAIN data THEN data[i]
                ELSE IF verification_results.success THEN verification_completed
                ELSE verification_failed(verification_results)]]

InitOrchestrator ==
    /\ pc = "prepare"
    /\ text_input = NoText
    /\ NoVerify
    /\ verdicts = <<>>
    /\ aggregate = <<>>
    /\ candidate = NoCandidate
    /\ relevance = <<>>
    /\ payload = JsonArray
    /\ parses = <<>>
    /\ pipelines = <<>>
    /\ content = <<>>
    /\ extracted = <<>>
    /\ workflow = <<>>
    /\ \E posts \in PostLists :
          orchestrator = [posts |-> posts, content_data |-> <<>>, returned |-> <<>>,
                          verification_results |-> <<>>, final_output |-> <<>>]
    /\ scan = <<>>

orchestrator_unchanged ==
    UNCHANGED <<verify_vars, verdicts, aggregate, candidate, relevance, payload, parses,
                pipelines, content, extracted, workflow, scan>>

\* "if not trend_results.get('posts')" returns early; otherwise Step 2
PrepareContent ==
    /\ pc = "prepare"
    /\ IF orchestrator.posts = <<>>
       THEN pc' = "pipeline_done" /\ orchestrator' = orchestrator
       ELSE /\ pc' = "verify_claims"
            /\ orchestrator' = [orchestrator EXCEPT
                                   !.content_data = prepare_content(orchestrator.posts, 1)]
    /\ orchestrator_unchanged

\* Step 3: the verification task, run only when there is content data
VerifyContent ==
    /\ pc = "verify_claims"
    /\ LET content_data == orchestrator.content_data
       IN  IF content_data = <<>>
           THEN orchestrator' = [orchestrator EXCEPT
                                    !.verification_results =
                                        <<[success |-> FALSE,
                                           message |-> <<"No claims to verify">>]>>]
           ELSE \/ \E success \in BOOLEAN, direct \in BOOLEAN,
                     founds \in [DOMAIN content_data -> BOOLEAN] :
                       LET claims == [k \in DOMAIN content_data |->
                                         verified_claim(content_data[k], founds[k])]
                       IN  orchestrator' =
                               [orchestrator EXCEPT
                                   !.returned = claims,
                                   !.verification_results =
                                       <<verify_content(claims, success, direct)>>]
                \/ orchestrator' = [orchestrator EXCEPT
                                       !.verification_results = <<text_verification>>]
    /\ pc' = "process"
    /\ orchestrator_unchanged

\* Step 4: _process_orchestrator_workflow on the combined workflow
ProcessOrchestratorWorkflow ==
    /\ pc = "process"
    /\ orchestrator' = [orchestrator EXCEPT
                           !.final_output =
                               process_orchestrator_workflow(orchestrator.posts,
                                   orchestrator.verification_results[1])]
    /\ pc' = "pipeline_done"
    /\ orchestrator_unchanged

NextOrchestrator == PrepareContent \/ VerifyContent \/ ProcessOrchestratorWorkflow

SpecOrchestrator == InitOrchestrator /\ [][NextOrchestrator]_vars

-----------------------------------------------------------------------------
(* TrendScannerCrew.scan_trending_content, from the crew's scan results on   *)

MaxScans == 2       \* results of one scan crew run, one per subreddit

RiskLevels == {"HIGH", "MEDIUM", "LOW"}

\* a trending post as the scan reports it: risk_level and scraped_content may be missing
ScanPosts ==
    { [post_id |-> <<"p">>, risk_level |-> level] : level \in RiskLevels \cup {"CRITICAL"} }
    \cup { [post_id |-> <<"p">>] }
    \cup { [post_id |-> <<"p">>, risk_level |-> "HIGH", scraped_content |-> <<"article">>] }

ScanObjects ==
    { [trending_posts |-> posts, scan_summary |-> <<"summary">>] :
        posts \in SeqsUpTo(ScanPosts, 1) }
    \cup { [scan_summary |-> <<"nothing found">>] }

\* one scan result: a dict, or text that is JSON, JSON inside a fence, or prose
ScanResults ==
    { [form |-> form, object |-> o] : form \in {"dict", "json", "fenced"}, o \in ScanObjects }
    \cup { [form |-> "prose"] }

\* what the loop body adds to all_trending_posts for one result
posts_of(result) ==
    IF result.form = "dict" THEN <<>>
    ELSE IF result.form = "prose" THEN <<>>
    ELSE IF "trending_posts" \in DOMAIN result.object THEN result.object.trending_posts
    ELSE <<>>

RECURSIVE all_posts(_)
all_posts(scan_results) ==
    IF scan_results = <<>> THEN <<>>
    ELSE posts_of(Head(scan_results)) \o all_posts(Tail(scan_results))

\* risk_distribution = {'HIGH': 3, 'MEDIUM': 2, 'LOW': 1}
InitialDistribution == [HIGH |-> 3, MEDIUM |-> 2, LOW |-> 1]

\* post.get('risk_level', 'LOW')
risk_level_of(post) == IF "risk_level" \in DOMAIN post THEN post.risk_level ELSE "LOW"

RECURSIVE count_risks(_, _)
count_risks(posts, distribution) ==
    IF posts = <<>> THEN distribution
    ELSE count_risks(Tail(posts),
             [distribution EXCEPT ![risk_level_of(Head(posts))] = @ + 1])

\* the dict returned, or the KeyError of a risk level that is not a key
scan_trending_content(scan_results) ==
    LET all_trending_posts == all_posts(scan_results)
        unknown == { k \in DOMAIN all_trending_posts :
                       risk_level_of(all_trending_posts[k]) \notin DOMAIN InitialDistribution }
    IN  IF unknown # {}
        THEN Raised([type |-> "KeyError", msg |-> <<"CRITICAL">>])
        ELSE Returned(
                [trending_posts |-> all_trending_posts,
                 total_posts_found |-> Len(all_trending_posts),
                 posts_with_scraped_content |->
                     Cardinality({ k \in DOMAIN all_trending_posts :
                                     /\ "scraped_content" \in DOMAIN all_trending_posts[k]
                                     /\ all_trending_posts[k].scraped_content # <<>> }),
                 risk_distribution |-> count_risks(all_trending_posts, InitialDistribution)])

InitScan ==
    /\ pc = "scan"
    /\ text_input = NoText
    /\ NoVerify
    /\ verdicts = <<>>
    /\ aggregate = <<>>
    /\ candidate = NoCandidate
    /\ relevance = <<>>
    /\ payload = JsonArray
    /\ parses = <<>>
    /\ pipelines = <<>>
    /\ content = <<>>
    /\ extracted = <<>>
    /\ workflow = <<>>
    /\ orchestrator = <<>>
    /\ \E scan_results \in SeqsUpTo(ScanResults, MaxScans) :
          scan = [scan_results |-> scan_results, returned |-> <<>>]

ScanTrendingContent ==
    /\ pc = "scan"
    /\ scan' = [scan EXCEPT !.returned = <<scan_trending_content(scan.scan_results)>>]
    /\ pc' = "scanned"
    /\ UNCHANGED <<verify_vars, verdicts, aggregate, candidate, relevance, payload, parses,
                   pipelines, content, extracted, workflow, orchestrator>>

SpecScan == InitScan /\ [][ScanTrendingContent]_vars

-----------------------------------------------------------------------------
(* Properties *)

Verdicts == {"true", "false", "mixed", "uncertain", "unknown", "no_content", "error"}

ReportKeys == {"verified", "verdict", "message", "details"}

Score(doc) == calculate_relevance(doc, text_input)

\* Indices of the search results that score strictly above the threshold.
AboveThreshold == { j \in DOMAIN search_results : Score(search_results[j]) > Threshold }

VerdictCalls == { i \in DOMAIN oracle_log : oracle_log[i].purpose = "verdict" }
BroadenCalls == { i \in DOMAIN oracle_log : oracle_log[i].purpose = "broaden" }

\* C1: verify() never lets an exception escape; a finished call has returned
\* exactly one report, and it carries verified, verdict, message and details.
C1_NoExceptionEscapes ==
    /\ escaped = <<>>
    /\ Len(reports) = (IF pc = "done" THEN 1 ELSE 0)
    /\ \A i \in DOMAIN reports : ReportKeys \subseteq DOMAIN reports[i]

\* a call that ended because the broadened search raised
C1_Witness ==
    /\ pc = "done"
    /\ Len(search_returns) = 2
    /\ search_returns[2].raised
    /\ Len(reports) = 1

\* C2: the verdict of every report is a member of the fixed set.
C2_VerdictInFixedSet ==
    \A i \in DOMAIN reports : reports[i].verdict \in Verdicts

\* C3: when no candidate survives the filter (both searches empty, or nothing
\* above the threshold) the report is no_content with verified false, and the
\* oracle is asked for a verdict only when some candidate is above the threshold.
C3_EmptyEvidenceIsNoContent ==
    /\ (pc = "done" /\ ~search_returns[Len(search_returns)].raised /\ AboveThreshold = {})
          => /\ Len(reports) = 1
             /\ reports[1].verdict = "no_content"
             /\ reports[1].verified = FALSE
             /\ VerdictCalls = {}
    /\ VerdictCalls # {} => AboveThreshold # {}

\* candidates were found by the first search and none passed the threshold
C3_Witness ==
    /\ pc = "done"
    /\ Len(search_log) = 1
    /\ search_results # <<>>
    /\ AboveThreshold = {}
    /\ reports[1].verdict = "no_content"

\* C4: at most two searches and one broadening per call, and both the
\* broadening and the second search happen only after an empty first search.
C4_SingleBroadening ==
    /\ Len(search_log) <= 2
    /\ Cardinality(BroadenCalls) <= 1
    /\ (Len(search_log) = 2 \/ BroadenCalls # {})
          => search_returns[1] = Returned(<<>>)
    /\ (Len(search_returns) >= 1 /\ search_returns[1] # Returned(<<>>))
          => Len(search_log) = 1

\* a call that searched twice and finished
C4_Witness ==
    /\ pc = "done"
    /\ Len(search_log) = 2
    /\ Cardinality(BroadenCalls) = 1
    /\ search_results # <<>>

\* The broadening step yielded no usable query: the oracle call failed, its
\* reply was unparsable, or it named the original query again.
NoUsableQuery ==
    /\ BroadenCalls # {}
    /\ \E i \in BroadenCalls :
          oracle_log[i].reply \in {"raised", "unparsable"} \/ oracle_log[i].same_query

\* C5: when broadening yields no usable query, planFallback returns the empty
\* list and no further search is issued.
C5_NoSearchWithoutUsableQuery ==
    NoUsableQuery => /\ alternative_queries = PyList(<<>>)
                     /\ Len(search_log) = 1

\* C6: when the synthesis oracle raises or its reply does not parse, the
\* report is the fallback result, not an error, with the count of filtered
\* candidates.
C6_OracleFailureFallsBack ==
    \A i \in VerdictCalls :
        (pc = "done" /\ oracle_log[i].reply \in {"raised", "unparsable"})
          => /\ Len(reports) = 1
             /\ reports[1].verdict = "uncertain"
             /\ reports[1].verified = FALSE
             /\ reports[1].details.analysis.confidence = "low"
             /\ reports[1].details.analysis.analysis_method = "fallback"
             /\ reports[1].details.analysis.relevant_results_count = Cardinality(AboveThreshold)

\* the oracle raised with two candidates above the threshold
C6_Witness ==
    /\ pc = "done"
    /\ \E i \in VerdictCalls : oracle_log[i].reply = "raised"
    /\ Cardinality(AboveThreshold) = 2
    /\ Len(search_results) = 3

\* C7: a failed search request is the last request of the call; no later
\* stage runs and the report is verdict error, verified false, with the
\* fault's message inside the report message.
C7_SearchFailureIsError ==
    \A i \in DOMAIN search_log :
        search_log[i].failed
          => /\ i = Len(search_log)
             /\ pc = "done"
             /\ relevant_results = <<>>
             /\ VerdictCalls = {}
             /\ (i = 1 => oracle_log = <<>>)
             /\ Len(reports) = 1
             /\ reports[1].verdict = "error"
             /\ reports[1].verified = FALSE
             /\ search_returns[i].raised
             /\ Embedded(search_returns[i].exc.msg, reports[1].message)

\* the broadened search failed after a usable broader query
C7_Witness ==
    /\ Len(search_log) = 2
    /\ search_log[2].failed
    /\ search_log[2].query = PyList(<<(<<"broader">>)>>)
    /\ Len(reports) = 1

\* C8: conservative precedence on a non-empty list: false, else true, else
\* mixed, else uncertain, else unknown; verified exactly when the verdict is true.
C8_AggregationPrecedence ==
    \A i \in DOMAIN aggregate :
        verdicts # <<>> =>
            LET has(v) == \E j \in DOMAIN verdicts : verdicts[j] = v
            IN  /\ aggregate[i].verdict =
                      (IF has("false") THEN "false"
                       ELSE IF has("true") THEN "true"
                       ELSE IF has("mixed") THEN "mixed"
                       ELSE IF has("uncertain") THEN "uncertain"
                       ELSE "unknown")
                /\ aggregate[i].verified = (aggregate[i].verdict = "true")

\* one refutation against two corroborations
C8_Witness ==
    /\ aggregate # <<>>
    /\ count(verdicts, "true") = 2
    /\ count(verdicts, "false") = 1
    /\ aggregate[1].verdict = "false"

\* C9: the empty list aggregates to uncertain, unverified, "No verdicts found".
C9_EmptyListIsUncertain ==
    \A i \in DOMAIN aggregate :
        verdicts = <<>> =>
            /\ aggregate[i].verdict = "uncertain"
            /\ aggregate[i].verified = FALSE
            /\ "message" \in DOMAIN aggregate[i]
            /\ aggregate[i].message = <<"No verdicts found">>

C9_Witness ==
    /\ verdicts = <<>>
    /\ Len(aggregate) = 1

FilterHasRun == pc \in {"synthesize", "done"} /\ search_results # <<>>

\* the i-th smallest member of a set of indices
Nth(S, i) == CHOOSE j \in S : Cardinality({ k \in S : k < j }) = i - 1

\* C10: the filter keeps exactly the candidates scoring strictly above 0.05,
\* in search order, each once.
C10_FilterKeepsAboveThresholdInOrder ==
    FilterHasRun =>
        /\ Len(relevant_results) = Cardinality(AboveThreshold)
        /\ \A i \in DOMAIN relevant_results :
              relevant_results[i] = search_results[Nth(AboveThreshold, i)]

\* a candidate scoring exactly 0.05 was dropped from between two kept ones
C10_Witness ==
    /\ FilterHasRun
    /\ Len(search_results) = 3
    /\ Score(search_results[2]) = Threshold
    /\ AboveThreshold = {1, 3}
    /\ search_results[1] # search_results[3]
    /\ Len(relevant_results) = 2

\* C11: the relevance score lies in [0,1]; a candidate with both
\* similarities 1 and the fact-check bonus scores exactly 1.
C11_ScoreInUnitInterval ==
    \A i \in DOMAIN relevance :
        /\ relevance[i] >= 0
        /\ relevance[i] <= ScoreOne
        /\ (/\ candidate.title # <<>> /\ candidate.title_sim = 10000
            /\ candidate.snippet # <<>> /\ candidate.snippet_sim = 10000
            /\ (candidate.claim_review \/ candidate.keyword))
              => relevance[i] = ScoreOne

\* the weighted sum is 1.1 and the score is 1
C11_Witness ==
    /\ Len(relevance) = 1
    /\ candidate.title # <<>> /\ candidate.title_sim = 10000
    /\ candidate.snippet # <<>> /\ candidate.snippet_sim = 10000
    /\ candidate.claim_review
    /\ relevance[1] = ScoreOne

\* C12: the message of every report is a non-empty string.
C12_MessageNonEmpty ==
    \A i \in DOMAIN reports : reports[i].message # <<>>

\* C14: a JSON object sent inside a fence (labelled or not) parses to the same
\* result as the same object sent bare, backticks inside its strings included.
C14_FencedParsesLikeBare ==
    \A i \in DOMAIN parses :
        /\ parses[i].fenced_json = parses[i].bare
        /\ parses[i].fenced_plain = parses[i].bare

\* C13: whenever synthesis runs, the reported evidence count equals the
\* number of entries enumerated to the oracle, also for more than five.
C13_CountIsEntriesEnumerated ==
    \A i \in VerdictCalls :
        pc = "done" =>
            reports[1].details.analysis.relevant_results_count = Len(oracle_log[i].sources)

\* C15: when the synthesis reply parses, every field missing from it is
\* defaulted and every field present in it is returned unchanged.
C15_DefaultsAndPassThrough ==
    \A i \in VerdictCalls :
        (pc = "done" /\ oracle_log[i].reply = "object") =>
            LET analysis == reports[1].details.analysis
                sent == oracle_log[i].sent
            IN  \A k \in VerdictKeys :
                    /\ k \in DOMAIN analysis
                    /\ analysis[k] = (IF k \in DOMAIN sent THEN sent[k] ELSE AnalysisDefaults[k])

\* C19 as stated: at most 5 entries are enumerated, and of more than 5
\* retained candidates the enumerated ones are the 5 with the highest scores.
C19_PromptHasFiveHighestScores ==
    \A i \in VerdictCalls :
        LET src == oracle_log[i].sources
            AtLeast(seq, d) == Cardinality({ k \in DOMAIN seq : Score(seq[k]) >= Score(d) })
        IN  /\ Len(src) <= 5
            /\ Len(relevant_results) > 5 =>
                  \A j \in DOMAIN relevant_results :
                      AtLeast(src, relevant_results[j])
                          = Min(5, AtLeast(relevant_results, relevant_results[j]))

\* C19 amended: at most 5 entries are enumerated, and of more than 5 retained
\* candidates the enumerated ones are the first 5 in search order.
C19_PromptHasFirstFive ==
    \A i \in VerdictCalls :
        LET src == oracle_log[i].sources
        IN  /\ Len(src) = Min(5, Len(relevant_results))
            /\ \A k \in DOMAIN src : src[k] = relevant_results[k]

\* six retained candidates, the best-scoring one last and left out of the prompt
C19_Witness ==
    /\ pc = "done"
    /\ Len(relevant_results) = 6
    /\ \A k \in 1..5 : Score(relevant_results[k]) < Score(relevant_results[6])
    /\ \E i \in VerdictCalls : Len(oracle_log[i].sources) = 5

\* The first search came back empty and the broadened search found candidates.
BroadenedFound ==
    /\ pc = "done"
    /\ Len(search_returns) = 2
    /\ search_returns[1] = Returned(<<>>)
    /\ ~search_returns[2].raised
    /\ search_returns[2].value # <<>>

C18_EvidenceIsFilteredCandidates ==
    (pc = "done" /\ VerdictCalls # {}) =>
        /\ reports[1].details.fact_checks = relevant_results
        /\ \A k \in DOMAIN reports[1].details.fact_checks :
              Score(reports[1].details.fact_checks[k]) > Threshold

\* C20: the broadening step returns at most one query; a simpler_query in the
\* oracle's reply never becomes a second query.
C20_AtMostOneBroadenedQuery ==
    alternative_queries.py = "list" => Len(alternative_queries.items) <= 1

\* C17: concurrent verify() calls share no mutable state: in every
\* interleaving each call's report is the one it produces alone from the
\* responses it was served, and its locals hold only its own claim.
C17_PipelinesIsolated ==
    pc = "concurrent" =>
        \A p \in Pipelines :
            LET call == pipelines.calls[p]
                locals == pipelines.frames[p]
            IN  /\ locals.text_input \in {NoText, ClaimOf(p)}
                /\ call.pc = "start" => locals = NewFrame
                /\ call.pc = "done" =>
                      /\ call.report = solo_report(ClaimOf(p), call.served)
                      /\ Len(call.report) = 1
                      /\ call.report[1].details.claim_text = ClaimOf(p)

\* one call has finished with a synthesized report while another, started on
\* a different claim, is waiting for its own verdict
C17_Witness ==
    /\ pc = "concurrent"
    /\ pipelines.calls[1].pc = "done"
    /\ pipelines.calls[1].report[1].verdict = "true"
    /\ pipelines.calls[2].pc = "synthesize"
    /\ pipelines.frames[2].search_results # pipelines.frames[1].search_results

\* Does the case-folded input of the classifier contain a keyword of the family?
Has(family) == \E word \in family : Embedded(word, lower(content))

\* C21: the families are applied in strict priority order on the case-folded
\* text: any false keyword gives false whatever else is there, otherwise any
\* true keyword gives true, then mixed, then uncertain, and no keyword unknown.
C21_FamiliesInPriorityOrder ==
    \A i \in DOMAIN extracted :
        /\ Has(FalseWords) => extracted[i] = "false"
        /\ (~Has(FalseWords) /\ Has(TrueWords)) => extracted[i] = "true"
        /\ (~Has(FalseWords) /\ ~Has(TrueWords) /\ Has(MixedWords)) => extracted[i] = "mixed"
        /\ (~Has(FalseWords) /\ ~Has(TrueWords) /\ ~Has(MixedWords) /\ Has(UncertainWords))
              => extracted[i] = "uncertain"
        /\ ~Has(Words \ OtherWords) => extracted[i] = "unknown"

\* a text with a keyword of the false, the true and the mixed family is false
C21_Witness ==
    /\ extracted = <<"false">>
    /\ Has(FalseWords) /\ Has(TrueWords) /\ Has(MixedWords)

\* C22: every keyword of the false, mixed and uncertain families, given alone
\* as the whole text, is classified as its own family's verdict.
C22_KeywordAloneGivesItsFamily ==
    \A i \in DOMAIN extracted :
        /\ content \in FalseWords => extracted[i] = "false"
        /\ content \in MixedWords => extracted[i] = "mixed"
        /\ content \in UncertainWords => extracted[i] = "uncertain"

\* Stage by stage: start is INIT, search and search_alt are SEARCHING, broaden
\* is BROADENING, analyze is SCORING, synthesize is SYNTHESIZING, done is terminal.
StageOrder ==
    { <<"start", "search">>, <<"search", "broaden">>, <<"search", "analyze">>,
      <<"search", "done">>, <<"broaden", "search_alt">>, <<"search_alt", "analyze">>,
      <<"search_alt", "done">>, <<"analyze", "synthesize">>, <<"analyze", "done">>,
      <<"synthesize", "done">> }

NewVerdictCall ==
    /\ Len(oracle_log') = Len(oracle_log) + 1
    /\ oracle_log'[Len(oracle_log')].purpose = "verdict"

\* C23: the stages follow one another only in the order INIT, SEARCHING,
\* optional BROADENING and SEARCHING, SCORING, SYNTHESIZING; the oracle is asked
\* for a verdict at most once, only after scoring kept a candidate above the
\* threshold, and never once a terminal outcome is decided.
C23_StagesInOrder ==
    [][ /\ <<pc, pc'>> \in StageOrder
        /\ NewVerdictCall =>
              /\ pc = "synthesize"
              /\ AboveThreshold # {}
              /\ relevant_results # <<>>
              /\ VerdictCalls = {}
              /\ reports = <<>> /\ escaped = <<>>
        /\ pc = "done" => oracle_log' = oracle_log ]_vars

\* a call that went through every stage, broadening included
C23_Witness ==
    /\ pc = "done"
    /\ Len(search_log) = 2
    /\ BroadenCalls # {}
    /\ VerdictCalls # {}
    /\ Len(reports) = 1

\* C24: every call ends in exactly one terminal outcome after at most two
\* searches and two oracle calls, with a single broadening round at most.
C24_Terminates ==
    /\ [](/\ Len(search_log) <= 2
          /\ Len(oracle_log) <= 2
          /\ Cardinality(BroadenCalls) <= 1
          /\ pc = "done" => Len(reports) + Len(escaped) = 1)
    /\ (pc = "search") ~> (pc = "done")

\* a finished call that used both searches and both oracle calls
C24_Witness ==
    /\ pc = "done"
    /\ Len(search_log) = 2
    /\ Len(oracle_log) = 2
    /\ Len(reports) + Len(escaped) = 1

\* C25: in every report, verified is true only if the verdict is "true",
\* whatever the oracle returns.
C25_VerifiedOnlyIfTrue ==
    \A i \in DOMAIN reports : reports[i].verified => reports[i].verdict = "true"

\* The orderings of a list of n elements.
Orderings(n) == { f \in [1..n -> 1..n] : \A i, j \in 1..n : f[i] = f[j] => i = j }

\* C26: the aggregation result depends only on the multiset of verdicts:
\* every permutation of the list gives the same verdict, flag and counts.
C26_AggregationIgnoresOrder ==
    \A i \in DOMAIN aggregate :
        \A f \in Orderings(Len(verdicts)) :
            analyze_verdicts([j \in DOMAIN verdicts |-> verdicts[f[j]]]) = aggregate[i]

\* a list that starts with true, holds a false further on, and aggregates to false
C26_Witness ==
    /\ Len(aggregate) = 1
    /\ Len(verdicts) >= 2
    /\ verdicts[1] = "true"
    /\ verdicts[Len(verdicts)] = "false"
    /\ aggregate[1].verdict = "false"
    /\ aggregate[1].total_verdicts = Len(verdicts)

\* C29: tasks are processed in list order with one result each; an unregistered
\* agent gives an error result without aborting; every executed task after the
\* first sees the previous task's result as last_result; and in the final
\* result completed_tasks + failed_tasks = total_tasks.
C29_WorkflowInOrder ==
    pc \in {"workflow", "workflow_done"} =>
        /\ Len(workflow.workflow_results) = workflow.i - 1
        /\ \A k \in DOMAIN workflow.workflow_results :
              /\ workflow.workflow_results[k].task = workflow.tasks[k].task
              /\ workflow.tasks[k].agent \notin DOMAIN Agents
                    => has_error(workflow.workflow_results[k])
        /\ \A e \in DOMAIN workflow.executed :
              LET seen == workflow.executed[e]
              IN  seen.index > 1 =>
                      /\ <<"last_result">> \in DOMAIN seen.context
                      /\ seen.context[<<"last_result">>]
                            = workflow.workflow_results[seen.index - 1]
        /\ \A r \in DOMAIN workflow.returned :
              /\ Len(workflow.returned[r].workflow_results) = Len(workflow.tasks)
              /\ workflow.returned[r].completed_tasks + workflow.returned[r].failed_tasks
                    = workflow.returned[r].total_tasks

\* The verifications the claim verifier returned for the claim of post i.
OwnVerifications(i) ==
    { orchestrator.returned[k].verification :
        k \in { j \in DOMAIN orchestrator.returned :
                  orchestrator.returned[j].source_content.claim_metadata.post_index = i } }

AllVerifications ==
    { orchestrator.returned[k].verification : k \in DOMAIN orchestrator.returned }

\* C27: in the final output each post carries the verification produced for
\* its own claim; no post carries another post's verification and a post
\* skipped before verification carries none.
C27_VerificationOfOwnClaim ==
    pc = "pipeline_done" =>
        \A i \in DOMAIN orchestrator.final_output :
            LET attached == orchestrator.final_output[i].verification
            IN  /\ attached \in AllVerifications => attached \in OwnVerifications(i)
                /\ ~has_claim(orchestrator.posts[i]) => attached \notin AllVerifications

\* C28: a post for which the claim verifier returned no verification result
\* is never reported with verified = true.
C28_VerifiedNeedsResult ==
    pc = "pipeline_done" =>
        \A i \in DOMAIN orchestrator.final_output :
            orchestrator.final_output[i].verification.verified => OwnVerifications(i) # {}

\* C30: in the result of a scan the risk_distribution count of each level is
\* the number of trending posts of that level, so the three counts add up to
\* total_posts_found.
C30_RiskCountsMatchPosts ==
    \A r \in DOMAIN scan.returned :
        ~scan.returned[r].raised =>
            LET result == scan.returned[r].value
                posts == result.trending_posts
                distribution == result.risk_distribution
            IN  /\ \A level \in RiskLevels :
                      distribution[level]
                          = Cardinality({ k \in DOMAIN posts : risk_level_of(posts[k]) = level })
                /\ distribution["HIGH"] + distribution["MEDIUM"] + distribution["LOW"]
                      = result.total_posts_found

====
